---- MODULE Spec2Model ----
(***************************************************************************)
(* A model of the entity resolution engine of parsers/entity_matcher.py:   *)
(* the three normalizers, the SequenceMatcher-based similarity, the three  *)
(* matchers and cross_reference.                                           *)
(*                                                                         *)
(* A Python str is a sequence of one-character strings.  None is the       *)
(* one-element sequence <<"None">>, which is no str.  A dict is a function *)
(* from key strings to values.  A float score is an exact rational         *)
(* [n |-> numerator, d |-> denominator]; a threshold and a rounded         *)
(* "_match_score" are integers counting thousandths.                       *)
(***************************************************************************)
EXTENDS Integers, Sequences, FiniteSets, TLC

(***************************************************************************)
(* Characters and the str methods the code uses.                           *)
(***************************************************************************)
Chars(s) == [i \in 1..Len(s) |-> SubSeq(s, i, i)]

None == <<"None">>

UpperSeq == Chars("ABCDEFGHIJKLMNOPQRSTUVWXYZ")
LowerSeq == Chars("abcdefghijklmnopqrstuvwxyz")
DigitSeq == Chars("0123456789")

Range(f) == {f[i] : i \in DOMAIN f}

SetMax(S) == CHOOSE x \in S : \A y \in S : y <= x
SetMin(S) == CHOOSE x \in S : \A y \in S : x <= y

IsDigit(c) == c \in Range(DigitSeq)
IsAlpha(c) == c \in Range(UpperSeq) \cup Range(LowerSeq)
\* \w of the re module, on ASCII text
IsWord(c) == IsAlpha(c) \/ IsDigit(c) \/ c = "_"
\* \s of the re module and the whitespace of str.strip / str.split
IsSpace(c) == c \in {" ", "\t", "\n"}

lower_char(c) ==
    IF c \in Range(UpperSeq)
    THEN LowerSeq[CHOOSE i \in DOMAIN UpperSeq : UpperSeq[i] = c]
    ELSE c

lower(s) == [i \in DOMAIN s |-> lower_char(s[i])]

RECURSIVE lstrip(_)
lstrip(s) == IF s # <<>> /\ IsSpace(Head(s)) THEN lstrip(Tail(s)) ELSE s

RECURSIVE rstrip(_)
rstrip(s) ==
    IF s # <<>> /\ IsSpace(s[Len(s)]) THEN rstrip(SubSeq(s, 1, Len(s) - 1)) ELSE s

strip(s) == rstrip(lstrip(s))

\* F(v) with v evaluated once, before F is applied (an assignment to a local)
Eager(v, F(_)) == CHOOSE r \in {F(x) : x \in {v}} : TRUE

\* "not x" for x a str or None
Falsy(x) == x = None \/ x = <<>>

\* dict.get(key, default)
Get(dict, key, default) == IF key \in DOMAIN dict THEN dict[key] ELSE default

(***************************************************************************)
(* The regular expressions of the normalizers, each as the scan re.sub     *)
(* performs: leftmost match first, then on from the end of the match.      *)
(***************************************************************************)
\* \b at the gap before position i (1-based; i = Len(s) + 1 is the end)
Boundary(s, i) ==
    LET before == i > 1 /\ IsWord(s[i - 1])
        after == i <= Len(s) /\ IsWord(s[i])
    IN  before # after

\* w occurs in s at position i
OccursAt(s, w, i) ==
    /\ i + Len(w) - 1 <= Len(s)
    /\ \A k \in 1..Len(w) : s[i + k - 1] = w[k]

\* re.sub(r"[.,;:'\"()\-]", " ", s)
PUNCTUATION == {".", ",", ";", ":", "'", "\"", "(", ")", "-"}

sub_punctuation(s) == [i \in DOMAIN s |-> IF s[i] \in PUNCTUATION THEN " " ELSE s[i]]

\* re.sub(r"\s+", " ", s)
RECURSIVE collapse_ws(_)
collapse_ws(s) ==
    IF s = <<>> THEN <<>>
    ELSE IF IsSpace(Head(s))
         THEN <<" ">> \o collapse_ws(lstrip(s))
         ELSE <<Head(s)>> \o collapse_ws(Tail(s))

(***************************************************************************)
(* normalize_company_name                                                  *)
(***************************************************************************)
\* One entry per regular expression of COMPANY_SUFFIXES, in the list's order:
\* \b word opt? \b, where opt is the optional "\.", "s" or "[s]" (or nothing).
Suffix(word, opt) == [word |-> Chars(word), opt |-> Chars(opt)]

COMPANY_SUFFIXES ==
    << Suffix("inc", "."), Suffix("ltd", "."), Suffix("corp", "."),
       Suffix("corporation", ""), Suffix("co", "."), Suffix("llc", ""),
       Suffix("llp", ""), Suffix("lp", ""), Suffix("partnership", ""),
       Suffix("holding", "s"), Suffix("group", ""), Suffix("properties", ""),
       Suffix("investment", "s"), Suffix("realty", ""), Suffix("trust", ""),
       Suffix("associate", "s"), Suffix("enterprise", "s"),
       Suffix("development", "s"), Suffix("construction", "") >>

\* Length of the match of \b word opt? \b at position i of s, 0 for none.
\* The optional part is greedy: taken when the match then succeeds.
suffix_match_len(s, pat, i) ==
    LET w == Len(pat.word)
    IN  IF ~(Boundary(s, i) /\ OccursAt(s, pat.word, i)) THEN 0
        ELSE IF pat.opt # <<>> /\ OccursAt(s, pat.opt, i + w)
                              /\ Boundary(s, i + w + Len(pat.opt))
             THEN w + Len(pat.opt)
        ELSE IF Boundary(s, i + w) THEN w
        ELSE 0

\* sub_suffix had re.sub been given count=1: only the leftmost match goes
sub_suffix_first(s, pat, i) ==
    LET starts == {j \in i..Len(s) : suffix_match_len(lower(s), pat, j) > 0}
    IN  IF starts = {} THEN SubSeq(s, i, Len(s))
        ELSE Eager(SetMin(starts), LAMBDA j :
             SubSeq(s, i, j - 1)
             \o SubSeq(s, j + suffix_match_len(lower(s), pat, j), Len(s)))

\* re.sub(suffix, "", s, flags=re.IGNORECASE), from position i on: the text up
\* to the leftmost match, and the same from the end of that match on
RECURSIVE sub_suffix(_, _, _)
sub_suffix(s, pat, i) ==
    Eager({j \in i..Len(s) : suffix_match_len(lower(s), pat, j) > 0}, LAMBDA starts :
        IF starts = {} THEN SubSeq(s, i, Len(s))
        ELSE Eager(SetMin(starts), LAMBDA j :
             SubSeq(s, i, j - 1)
             \o sub_suffix(s, pat, j + suffix_match_len(lower(s), pat, j))))

\* for suffix in COMPANY_SUFFIXES: name = re.sub(suffix, "", name, ...)
RECURSIVE remove_suffixes(_, _)
remove_suffixes(s, k) ==
    IF k > Len(COMPANY_SUFFIXES) THEN s
    ELSE Eager(sub_suffix(s, COMPANY_SUFFIXES[k], 1),
               LAMBDA t : remove_suffixes(t, k + 1))

normalize_company_name(name) ==
    IF Falsy(name) THEN <<>>
    ELSE Eager(sub_punctuation(strip(lower(name))), LAMBDA n1 :
         Eager(remove_suffixes(n1, 1), LAMBDA n2 :
         strip(collapse_ws(n2))))

(***************************************************************************)
(* normalize_person_name                                                   *)
(***************************************************************************)
\* ord(c) on ASCII: the characters from the space (32) to "_" (95) and from
\* "a" (97) to "~" (126), each run in code point order
AsciiLowSeq ==
    Chars(" !\"#$%&'()*+,-./0123456789:;<=>?@ABCDEFGHIJKLMNOPQRSTUVWXYZ[\\]^_")

AsciiHighSeq == Chars("abcdefghijklmnopqrstuvwxyz{|}~")

Ord(c) ==
    IF c = "\t" THEN 9
    ELSE IF c = "\n" THEN 10
    ELSE IF c \in Range(AsciiLowSeq)
         THEN 31 + (CHOOSE i \in DOMAIN AsciiLowSeq : AsciiLowSeq[i] = c)
    ELSE 96 + (CHOOSE i \in DOMAIN AsciiHighSeq : AsciiHighSeq[i] = c)

\* a < b for two str, as Python orders them
RECURSIVE str_less(_, _)
str_less(a, b) ==
    IF b = <<>> THEN FALSE
    ELSE IF a = <<>> THEN TRUE
    ELSE IF Head(a) # Head(b) THEN Ord(Head(a)) < Ord(Head(b))
    ELSE str_less(Tail(a), Tail(b))

\* the first whitespace-free run of s, and what follows it
RECURSIVE take_token(_)
take_token(s) ==
    IF s = <<>> \/ IsSpace(Head(s)) THEN <<>>
    ELSE <<Head(s)>> \o take_token(Tail(s))

\* str.split()
RECURSIVE split(_)
split(s) ==
    LET t == lstrip(s)
    IN  IF t = <<>> THEN <<>>
        ELSE LET tok == take_token(t)
             IN  <<tok>> \o split(SubSeq(t, Len(tok) + 1, Len(t)))

\* sorted(parts): a stable insertion into ascending order
RECURSIVE insert_sorted(_, _)
insert_sorted(sorted, tok) ==
    IF sorted = <<>> THEN <<tok>>
    ELSE IF str_less(tok, Head(sorted)) THEN <<tok>> \o sorted
    ELSE <<Head(sorted)>> \o insert_sorted(Tail(sorted), tok)

\* sorted_parts had the parts been left in the order of the name
sorted_parts_unsorted(parts) == parts

RECURSIVE sorted_parts(_)
sorted_parts(parts) ==
    IF parts = <<>> THEN <<>>
    ELSE insert_sorted(sorted_parts(SubSeq(parts, 1, Len(parts) - 1)),
                       parts[Len(parts)])

\* " ".join(parts)
RECURSIVE join(_)
join(parts) ==
    IF parts = <<>> THEN <<>>
    ELSE IF Len(parts) = 1 THEN parts[1]
    ELSE parts[1] \o <<" ">> \o join(Tail(parts))

normalize_person_name(name) ==
    IF Falsy(name) THEN <<>>
    ELSE Eager(sub_punctuation(strip(lower(name))), LAMBDA n1 :
         Eager(strip(collapse_ws(n1)), LAMBDA n2 :
         join(sorted_parts(split(n2)))))

(***************************************************************************)
(* similarity: difflib.SequenceMatcher(None, a, b).ratio()                 *)
(***************************************************************************)
\* Length of the longest common run of a[i..ahi] and b[j..bhi] from (i, j)
RECURSIVE run_len(_, _, _, _, _, _)
run_len(a, b, i, j, ahi, bhi) ==
    IF i > ahi \/ j > bhi \/ a[i] # b[j] THEN 0
    ELSE 1 + run_len(a, b, i + 1, j + 1, ahi, bhi)

\* SequenceMatcher.find_longest_match(alo, ahi, blo, bhi) on the inclusive
\* ranges a[alo..ahi], b[blo..bhi]: a longest matching block; of those the one
\* starting earliest in a; of those the one starting earliest in b.
find_longest_match(a, b, alo, ahi, blo, bhi) ==
    Eager([p \in (alo..ahi) \X (blo..bhi) |-> run_len(a, b, p[1], p[2], ahi, bhi)],
          LAMBDA runs :
    Eager(SetMax({runs[p] : p \in DOMAIN runs}), LAMBDA k :
    Eager(SetMin({p[1] : p \in {q \in DOMAIN runs : runs[q] = k}}), LAMBDA i :
    Eager(SetMin({p[2] : p \in {q \in DOMAIN runs : q[1] = i /\ runs[q] = k}}),
          LAMBDA j :
    [i |-> i, j |-> j, size |-> k]))))

\* The sum of the sizes of SequenceMatcher.get_matching_blocks(): the longest
\* block, then the same to its left and to its right.
RECURSIVE matching_size(_, _, _, _, _, _)
matching_size(a, b, alo, ahi, blo, bhi) ==
    IF alo > ahi \/ blo > bhi THEN 0
    ELSE Eager(find_longest_match(a, b, alo, ahi, blo, bhi), LAMBDA m :
         IF m.size = 0 THEN 0
         ELSE m.size
              + matching_size(a, b, alo, m.i - 1, blo, m.j - 1)
              + matching_size(a, b, m.i + m.size, ahi, m.j + m.size, bhi))

\* A score as an exact rational
Rat(n, d) == [n |-> n, d |-> d]
RatGeq(x, y) == x.n * y.d >= y.n * x.d
RatMax(x, y) == IF RatGeq(x, y) THEN x ELSE y

similarity(a, b) ==
    IF a = <<>> \/ b = <<>> THEN Rat(0, 1)
    ELSE Rat(2 * matching_size(a, b, 1, Len(a), 1, Len(b)), Len(a) + Len(b))

(***************************************************************************)
(* normalize_address                                                       *)
(***************************************************************************)
\* The number of digits (\d+) and of whitespace characters (\s*) from i on
RECURSIVE digits_from(_, _)
digits_from(s, i) ==
    IF i <= Len(s) /\ IsDigit(s[i]) THEN 1 + digits_from(s, i + 1) ELSE 0

RECURSIVE spaces_from(_, _)
spaces_from(s, i) ==
    IF i <= Len(s) /\ IsSpace(s[i]) THEN 1 + spaces_from(s, i + 1) ELSE 0

\* word \s* \d+ at i
word_number_len(s, word, i) ==
    IF ~OccursAt(s, word, i) THEN 0
    ELSE LET sp == spaces_from(s, i + Len(word))
             dg == digits_from(s, i + Len(word) + sp)
         IN  IF dg > 0 THEN Len(word) + sp + dg ELSE 0

\* r"#\d+|suite\s*\d+|unit\s*\d+"
unit_match_len(s, i) ==
    IF s[i] = "#" /\ digits_from(s, i + 1) > 0 THEN 1 + digits_from(s, i + 1)
    ELSE IF word_number_len(s, Chars("suite"), i) > 0
         THEN word_number_len(s, Chars("suite"), i)
    ELSE word_number_len(s, Chars("unit"), i)

\* ADDRESS_ABBREVS.items(), in the dict's order
Abbrev(full, abbr) == [full |-> Chars(full), abbr |-> Chars(abbr)]

ADDRESS_ABBREVS ==
    << Abbrev("avenue", "ave"), Abbrev("street", "st"), Abbrev("drive", "dr"),
       Abbrev("road", "rd"), Abbrev("boulevard", "blvd"),
       Abbrev("crescent", "cres"), Abbrev("place", "pl"),
       Abbrev("court", "crt"), Abbrev("lane", "ln"), Abbrev("terrace", "terr"),
       Abbrev("parkway", "pkwy"), Abbrev("highway", "hwy"),
       Abbrev("circle", "cir"), Abbrev("north", "n"), Abbrev("south", "s"),
       Abbrev("east", "e"), Abbrev("west", "w") >>

\* rf"\b{word}\b" at i
whole_word_len(s, word, i) ==
    IF Boundary(s, i) /\ OccursAt(s, word, i) /\ Boundary(s, i + Len(word))
    THEN Len(word) ELSE 0

\* rf"\b{abbr}\.\b" at i: the period must be followed by a word character
dotted_abbr_len(s, abbr, i) ==
    IF /\ Boundary(s, i)
       /\ OccursAt(s, abbr \o <<".">>, i)
       /\ Boundary(s, i + Len(abbr) + 1)
    THEN Len(abbr) + 1 ELSE 0

\* r"[A-Z]\d[A-Z]\s*\d[A-Z]\d" with re.IGNORECASE
postal_match_len(s, i) ==
    IF ~(/\ i + 2 <= Len(s)
         /\ IsAlpha(s[i]) /\ IsDigit(s[i + 1]) /\ IsAlpha(s[i + 2])) THEN 0
    ELSE LET sp == spaces_from(s, i + 3)
             j == i + 3 + sp
         IN  IF /\ j + 2 <= Len(s)
                /\ IsDigit(s[j]) /\ IsAlpha(s[j + 1]) /\ IsDigit(s[j + 2])
             THEN 6 + sp ELSE 0

PROVINCE_WORDS == << Chars("saskatchewan"), Chars("sk"), Chars("canada") >>

\* r",?\s*(?:saskatchewan|sk|canada)\b" with re.IGNORECASE
province_match_len(s, i) ==
    LET comma == IF s[i] = "," THEN 1 ELSE 0
        sp == spaces_from(s, i + comma)
        j == i + comma + sp
        hits == {k \in DOMAIN PROVINCE_WORDS :
                    /\ OccursAt(lower(s), PROVINCE_WORDS[k], j)
                    /\ Boundary(s, j + Len(PROVINCE_WORDS[k]))}
    IN  IF hits = {} THEN 0
        ELSE comma + sp + Len(PROVINCE_WORDS[SetMin(hits)])

\* The length of the match at i of a pattern of normalize_address, 0 for none.
\* No pattern matches the empty string.
address_match_len(pat, s, i) ==
    CASE pat.kind = "unit" -> unit_match_len(s, i)
      [] pat.kind = "full" -> whole_word_len(s, pat.word, i)
      [] pat.kind = "abbr" -> dotted_abbr_len(s, pat.word, i)
      [] pat.kind = "postal" -> postal_match_len(s, i)
      [] pat.kind = "province" -> province_match_len(s, i)

\* re.sub(pattern, repl, s), from position i on: the text up to the leftmost
\* match, the replacement, and the same from the end of that match on
RECURSIVE re_sub(_, _, _, _)
re_sub(pat, repl, s, i) ==
    Eager({j \in i..Len(s) : address_match_len(pat, s, j) > 0}, LAMBDA starts :
        IF starts = {} THEN SubSeq(s, i, Len(s))
        ELSE Eager(SetMin(starts), LAMBDA j :
             SubSeq(s, i, j - 1) \o repl
             \o re_sub(pat, repl, s, j + address_match_len(pat, s, j))))

\* The loop over ADDRESS_ABBREVS, from entry k on: the full word becomes the
\* abbreviation, then the abbreviation loses its period
RECURSIVE sub_abbrevs(_, _)
sub_abbrevs(s, k) ==
    IF k > Len(ADDRESS_ABBREVS) THEN s
    ELSE LET e == ADDRESS_ABBREVS[k]
         IN  Eager(re_sub([kind |-> "full", word |-> e.full], e.abbr, s, 1), LAMBDA s1 :
             Eager(re_sub([kind |-> "abbr", word |-> e.abbr], e.abbr, s1, 1), LAMBDA s2 :
             sub_abbrevs(s2, k + 1)))

\* re.sub(r"[,.]", " ", s)
sub_comma_period(s) == [i \in DOMAIN s |-> IF s[i] \in {",", "."} THEN " " ELSE s[i]]

normalize_address(address) ==
    IF Falsy(address) THEN <<>>
    ELSE Eager(strip(lower(address)), LAMBDA a1 :
         Eager(re_sub([kind |-> "unit"], <<>>, a1, 1), LAMBDA a2 :
         Eager(sub_abbrevs(a2, 1), LAMBDA a3 :
         Eager(re_sub([kind |-> "postal"], <<>>, a3, 1), LAMBDA a4 :
         Eager(re_sub([kind |-> "province"], <<>>, a4, 1), LAMBDA a5 :
         strip(collapse_ws(sub_comma_period(a5))))))))

(***************************************************************************)
(* Scores.  round(score, 3) is the number of thousandths nearest to the    *)
(* score, the even one when two are equally near.                          *)
(***************************************************************************)
round3(x) ==
    LET q == (1000 * x.n) \div x.d
        r == (1000 * x.n) % x.d
    IN  IF 2 * r > x.d THEN q + 1
        ELSE IF 2 * r < x.d THEN q
        ELSE IF q % 2 = 0 THEN q ELSE q + 1

\* score >= threshold, the threshold in thousandths
reaches(score, threshold) == 1000 * score.n >= threshold * score.d

\* set(s.split())
token_set(s) == Range(split(s))

\* numbered_prefix had the pattern asked for 7 digits or more
numbered_prefix_seven(s) ==
    LET dg == digits_from(s, 1)
    IN  IF dg >= 7 THEN SubSeq(s, 1, dg) ELSE <<>>

\* re.match(r"^(\d{6,})", s).group(1), <<>> when there is no match
numbered_prefix(s) ==
    LET dg == digits_from(s, 1)
    IN  IF dg >= 6 THEN SubSeq(s, 1, dg) ELSE <<>>

\* company_score had the token overlap been added to the similarity
company_score_added(norm_name, norm_candidate) ==
    LET base == similarity(norm_name, norm_candidate)
        name_tokens == token_set(norm_name)
        cand_tokens == token_set(norm_candidate)
        larger == IF Cardinality(name_tokens) >= Cardinality(cand_tokens)
                  THEN Cardinality(name_tokens) ELSE Cardinality(cand_tokens)
        overlap == Rat(Cardinality(name_tokens \cap cand_tokens), larger)
    IN  Rat(base.n * overlap.d + overlap.n * base.d, base.d * overlap.d)

\* The score match_company gives a pair of non-empty normalized names
company_score(norm_name, norm_candidate) ==
    LET base == similarity(norm_name, norm_candidate)
        name_tokens == token_set(norm_name)
        cand_tokens == token_set(norm_candidate)
        larger == IF Cardinality(name_tokens) >= Cardinality(cand_tokens)
                  THEN Cardinality(name_tokens) ELSE Cardinality(cand_tokens)
        boosted == IF name_tokens # {} /\ cand_tokens # {}
                   THEN RatMax(base, Rat(Cardinality(name_tokens \cap cand_tokens),
                                         larger))
                   ELSE base
        num_a == numbered_prefix(norm_name)
        num_b == numbered_prefix(norm_candidate)
    IN  IF num_a # <<>> /\ num_b # <<>> /\ num_a = num_b THEN Rat(1, 1)
        ELSE boosted

\* The score match_person gives a pair of non-empty normalized names
person_score(norm_name, norm_candidate) ==
    IF norm_name = norm_candidate THEN Rat(1, 1)
    ELSE similarity(norm_name, norm_candidate)

\* re.match(r"(\d+)\s+(.+)", s): [num, street], or [num |-> <<>>] for no match
street_parts(s) ==
    LET dg == digits_from(s, 1)
        sp == spaces_from(s, dg + 1)
        rest == SubSeq(s, dg + sp + 1, Len(s))
    IN  IF dg = 0 \/ sp = 0 THEN [num |-> <<>>, street |-> <<>>]
        ELSE IF rest # <<>> THEN [num |-> SubSeq(s, 1, dg), street |-> rest]
        ELSE IF sp >= 2 THEN [num |-> SubSeq(s, 1, dg), street |-> <<s[Len(s)]>>]
        ELSE [num |-> <<>>, street |-> <<>>]

\* The score match_address gives a pair of non-empty normalized addresses
address_score(norm_addr, norm_candidate) ==
    LET base == similarity(norm_addr, norm_candidate)
        num_a == street_parts(norm_addr)
        num_b == street_parts(norm_candidate)
    IN  IF num_a.num # <<>> /\ num_b.num # <<>> /\ num_a.num = num_b.num
        THEN LET street_score == similarity(num_a.street, num_b.street)
             IN  RatMax(base, Rat(19 * street_score.n, 20 * street_score.d))
        ELSE base

(***************************************************************************)
(* The inputs of the model: the strings given as queries and as fields of  *)
(* candidates and records.  TLC evaluates a constant once, so the values   *)
(* of the normalizers and of the scores on these strings are tabulated     *)
(* from the definitions above, and the matchers look them up.              *)
(***************************************************************************)
CompanyNames ==
    { Chars("102118427 Saskatchewan Ltd."), Chars("102118427 Saskatchewan Inc"),
      Chars("Wright Construction Western Inc"),
      Chars("Boulevard Real Estate Equities Ltd"),
      Chars("123456 A Ltd."), Chars("123456 B Inc"), Chars("1234567 A"),
      Chars("Tide Holdings"), Chars("Diet Corp."), Chars("Inc."), Chars("  ") }

PersonNames ==
    { Chars("BATTING TRAVIS"), Chars("Travis Batting"), Chars("Smith, John"),
      Chars("John Smith"), Chars("Jon Smith"), Chars(" . ") }

Addresses ==
    { Chars("306 ONTARIO AVENUE, MAINFLOOR, SASKATOON, Saskatchewan, Canada, S7K2H5"),
      Chars("306 Ontario Avenue, Main Floor, Saskatoon, Saskatchewan"),
      Chars("12 Elm Street"), Chars("12 Elm St"), Chars("12 Oak St"),
      Chars("14 Elm St"), Chars("SK") }

NonEmpty(S) == S \ {<<>>}

company_norms == [s \in CompanyNames |-> normalize_company_name(s)]
person_norms == [s \in PersonNames |-> normalize_person_name(s)]
address_norms == [s \in Addresses |-> normalize_address(s)]

company_scores ==
    [p \in NonEmpty(Range(company_norms)) \X NonEmpty(Range(company_norms)) |->
        company_score(p[1], p[2])]
person_scores ==
    [p \in NonEmpty(Range(person_norms)) \X NonEmpty(Range(person_norms)) |->
        person_score(p[1], p[2])]
address_scores ==
    [p \in NonEmpty(Range(address_norms)) \X NonEmpty(Range(address_norms)) |->
        address_score(p[1], p[2])]

company_norm(x) ==
    IF x \in DOMAIN company_norms THEN company_norms[x] ELSE normalize_company_name(x)
person_norm(x) ==
    IF x \in DOMAIN person_norms THEN person_norms[x] ELSE normalize_person_name(x)
address_norm(x) ==
    IF x \in DOMAIN address_norms THEN address_norms[x] ELSE normalize_address(x)

company_score_of(a, b) ==
    IF <<a, b>> \in DOMAIN company_scores THEN company_scores[<<a, b>>]
    ELSE company_score(a, b)
person_score_of(a, b) ==
    IF <<a, b>> \in DOMAIN person_scores THEN person_scores[<<a, b>>]
    ELSE person_score(a, b)
address_score_of(a, b) ==
    IF <<a, b>> \in DOMAIN address_scores THEN address_scores[<<a, b>>]
    ELSE address_score(a, b)

(***************************************************************************)
(* The matchers.  A match is [pos, score]: the position of the candidate   *)
(* in the list given and its rounded score.                                *)
(***************************************************************************)
\* matches.sort(key=lambda x: x["_match_score"], reverse=True): stable, so a
\* match goes behind every match whose score is not smaller
\* insert_desc had the sort put a match before the matches of equal score
RECURSIVE insert_desc_before_equal(_, _)
insert_desc_before_equal(sorted, m) ==
    IF sorted = <<>> THEN <<m>>
    ELSE IF Head(sorted).score > m.score
         THEN <<Head(sorted)>> \o insert_desc_before_equal(Tail(sorted), m)
    ELSE <<m>> \o sorted

RECURSIVE insert_desc(_, _)
insert_desc(sorted, m) ==
    IF sorted = <<>> THEN <<m>>
    ELSE IF Head(sorted).score >= m.score
         THEN <<Head(sorted)>> \o insert_desc(Tail(sorted), m)
    ELSE <<m>> \o sorted

RECURSIVE sort_desc(_)
sort_desc(matches) ==
    IF matches = <<>> THEN <<>>
    ELSE insert_desc(sort_desc(SubSeq(matches, 1, Len(matches) - 1)),
                     matches[Len(matches)])

\* accepts had the comparison been score > threshold
accepts_strictly(score, threshold) == 1000 * score.n > threshold * score.d

\* score >= threshold: the condition under which a candidate is appended
accepts(score, threshold) == reaches(score, threshold)

\* company_scan had the loop scored the candidates of an empty normalized name
RECURSIVE company_scan_no_skip(_, _, _, _)
company_scan_no_skip(norm_name, candidates, threshold, i) ==
    IF i > Len(candidates) THEN <<>>
    ELSE LET rest == company_scan_no_skip(norm_name, candidates, threshold, i + 1)
         IN  Eager(company_norm(Get(candidates[i], "name", <<>>)), LAMBDA norm_candidate :
             Eager(company_score_of(norm_name, norm_candidate), LAMBDA score :
                  IF accepts(score, threshold)
                  THEN <<[pos |-> i, score |-> round3(score)]>> \o rest
                  ELSE rest))

\* The loop of match_company over the candidates from position i on: the matches
\* appended, in the order of the candidates
RECURSIVE company_scan(_, _, _, _)
company_scan(norm_name, candidates, threshold, i) ==
    IF i > Len(candidates) THEN <<>>
    ELSE LET rest == company_scan(norm_name, candidates, threshold, i + 1)
         IN  Eager(company_norm(Get(candidates[i], "name", <<>>)), LAMBDA norm_candidate :
             IF norm_candidate = <<>> THEN rest
             ELSE Eager(company_score_of(norm_name, norm_candidate), LAMBDA score :
                  IF accepts(score, threshold)
                  THEN <<[pos |-> i, score |-> round3(score)]>> \o rest
                  ELSE rest))

\* The loop of match_person over the candidates from position i on: the matches
\* appended, in the order of the candidates
RECURSIVE person_scan(_, _, _, _)
person_scan(norm_name, candidates, threshold, i) ==
    IF i > Len(candidates) THEN <<>>
    ELSE LET rest == person_scan(norm_name, candidates, threshold, i + 1)
         IN  Eager(person_norm(Get(candidates[i], "name", <<>>)), LAMBDA norm_candidate :
             IF norm_candidate = <<>> THEN rest
             ELSE Eager(person_score_of(norm_name, norm_candidate), LAMBDA score :
                  IF accepts(score, threshold)
                  THEN <<[pos |-> i, score |-> round3(score)]>> \o rest
                  ELSE rest))

\* The loop of match_address over the candidates from position i on: the matches
\* appended, in the order of the candidates
RECURSIVE address_scan(_, _, _, _)
address_scan(norm_addr, candidates, threshold, i) ==
    IF i > Len(candidates) THEN <<>>
    ELSE LET rest == address_scan(norm_addr, candidates, threshold, i + 1)
         IN  Eager(address_norm(Get(candidates[i], "address", <<>>)), LAMBDA norm_candidate :
             IF norm_candidate = <<>> THEN rest
             ELSE Eager(address_score_of(norm_addr, norm_candidate), LAMBDA score :
                  IF accepts(score, threshold)
                  THEN <<[pos |-> i, score |-> round3(score)]>> \o rest
                  ELSE rest))

match_company(name, candidates, threshold) ==
    Eager(company_norm(name), LAMBDA norm_name :
        IF norm_name = <<>> THEN <<>>
        ELSE sort_desc(company_scan(norm_name, candidates, threshold, 1)))

\* The candidates match_company looks at: none when it returns before its loop
match_company_scanned(name, candidates) ==
    IF company_norm(name) = <<>> THEN 0 ELSE Len(candidates)

match_person(name, candidates, threshold) ==
    Eager(person_norm(name), LAMBDA norm_name :
        IF norm_name = <<>> THEN <<>>
        ELSE sort_desc(person_scan(norm_name, candidates, threshold, 1)))

\* The candidates match_person looks at: none when it returns before its loop
match_person_scanned(name, candidates) ==
    IF person_norm(name) = <<>> THEN 0 ELSE Len(candidates)

match_address(address, candidates, threshold) ==
    Eager(address_norm(address), LAMBDA norm_addr :
        IF norm_addr = <<>> THEN <<>>
        ELSE sort_desc(address_scan(norm_addr, candidates, threshold, 1)))

\* The candidates match_address looks at: none when it returns before its loop
match_address_scanned(address, candidates) ==
    IF address_norm(address) = <<>> THEN 0 ELSE Len(candidates)

\* {**candidate, "_match_score": score} for every match, in order
with_scores(candidates, matches) ==
    [k \in DOMAIN matches |->
        ("_match_score" :> matches[k].score) @@ candidates[matches[k].pos]]

(***************************************************************************)
(* cross_reference.  The two pools are built from Python sets, whose       *)
(* iteration order is not fixed: transfer_order and permit_order are the   *)
(* orders in which the sets happen to be listed.                           *)
(***************************************************************************)
Truthy(x) == ~Falsy(x)

\* [f(x) for x in xs] flattened, for f giving a list
RECURSIVE flatten(_)
flatten(lists) ==
    IF lists = <<>> THEN <<>> ELSE Head(lists) \o flatten(Tail(lists))

\* registry_companies.append({...}) for each record of registry_data
registry_company(reg) ==
    ( "name" :> Get(reg, "entity_name", <<>>)
      @@ "entity_number" :> Get(reg, "entity_number", None)
      @@ "source" :> Chars("registry") )

\* registry_people.append({...}) for each director, officer and shareholder
registry_people_of(reg) ==
    LET people == Get(reg, "directors", <<>>) \o Get(reg, "officers", <<>>)
                  \o Get(reg, "shareholders", <<>>)
    IN  [k \in DOMAIN people |->
            ( "name" :> Get(people[k], "name", <<>>)
              @@ "role" :> Get(people[k], "role", None)
              @@ "company" :> Get(reg, "entity_name", None)
              @@ "source" :> Chars("registry") )]

\* transfer_names had every vendor and purchaser been added, empty or not
transfer_names_unfiltered(transfers) ==
    {Get(transfers[i], "vendor", None) : i \in DOMAIN transfers}
    \cup {Get(transfers[i], "purchaser", None) : i \in DOMAIN transfers}

\* transfer_names had a name met again been taken out of the set: the names
\* met an odd number of times
transfer_names_toggled(transfers) ==
    LET met(n) ==
            Cardinality({i \in DOMAIN transfers : Get(transfers[i], "vendor", None) = n})
            + Cardinality({i \in DOMAIN transfers :
                              Get(transfers[i], "purchaser", None) = n})
        names == {Get(transfers[i], "vendor", None) : i \in DOMAIN transfers}
                 \cup {Get(transfers[i], "purchaser", None) : i \in DOMAIN transfers}
    IN  {n \in names : Truthy(n) /\ met(n) % 2 = 1}

\* The set transfer_companies: every truthy vendor and purchaser
transfer_names(transfers) ==
    {Get(transfers[i], "vendor", None) :
        i \in {j \in DOMAIN transfers : Truthy(Get(transfers[j], "vendor", None))}}
    \cup
    {Get(transfers[i], "purchaser", None) :
        i \in {j \in DOMAIN transfers : Truthy(Get(transfers[j], "purchaser", None))}}

\* The set permit_companies: every truthy owner
permit_names(permits) ==
    {Get(permits[i], "owner", None) :
        i \in {j \in DOMAIN permits : Truthy(Get(permits[j], "owner", None))}}

\* The orders in which a set may be iterated
Orderings(S) ==
    {o \in [1..Cardinality(S) -> S] : \A i, j \in DOMAIN o : o[i] = o[j] => i = j}

\* [{"name": n, "source": source} for n in names]
company_list(order, source) ==
    [k \in DOMAIN order |-> ("name" :> order[k] @@ "source" :> Chars(source))]

\* registry_links had only the best match of a registry company made a link
registry_links_best_only(reg_co, all_external, company_threshold) ==
    Eager(with_scores(all_external,
              match_company(reg_co["name"], all_external, company_threshold)),
          LAMBDA found :
        [k \in DOMAIN found \cap {1} |->
            ( "registry_entity" :> reg_co["name"]
              @@ "entity_number" :> Get(reg_co, "entity_number", None)
              @@ "matched_name" :> found[k]["name"]
              @@ "matched_source" :> found[k]["source"]
              @@ "score" :> found[k]["_match_score"] )])

\* The links appended for one registry company
registry_links(reg_co, all_external, company_threshold) ==
    Eager(with_scores(all_external,
              match_company(reg_co["name"], all_external, company_threshold)),
          LAMBDA found :
        [k \in DOMAIN found |->
            ( "registry_entity" :> reg_co["name"]
              @@ "entity_number" :> Get(reg_co, "entity_number", None)
              @@ "matched_name" :> found[k]["name"]
              @@ "matched_source" :> found[k]["source"]
              @@ "score" :> found[k]["_match_score"] )])

\* The links appended for one transfer company
transfer_links(tc, permit_company_list, company_threshold) ==
    Eager(with_scores(permit_company_list,
              match_company(tc["name"], permit_company_list, company_threshold)),
          LAMBDA found :
        [k \in DOMAIN found |->
            ( "transfer_entity" :> tc["name"]
              @@ "matched_name" :> found[k]["name"]
              @@ "matched_source" :> Chars("permit")
              @@ "score" :> found[k]["_match_score"] )])

\* registry_count had the count never been reported as zero
registry_count_at_least_one(registry_companies) ==
    IF registry_companies = <<>> THEN 1 ELSE Len(registry_companies)

\* len(registry_companies)
registry_count(registry_companies) == Len(registry_companies)

\* The locals and the returned dict of cross_reference
cross_reference(registry_data, transfers, permits, company_threshold, transfer_order, permit_order) ==
    Eager([i \in DOMAIN registry_data |-> registry_company(registry_data[i])],
          LAMBDA registry_companies :
    Eager(flatten([i \in DOMAIN registry_data |->
                      registry_people_of(registry_data[i])]),
          LAMBDA registry_people :
    Eager(company_list(transfer_order, "transfer"), LAMBDA transfer_company_list :
    Eager(company_list(permit_order, "permit"), LAMBDA permit_company_list :
    Eager(transfer_company_list \o permit_company_list, LAMBDA all_external :
    Eager(flatten([i \in DOMAIN registry_companies |->
                      registry_links(registry_companies[i], all_external,
                                     company_threshold)])
          \o flatten([i \in DOMAIN transfer_company_list |->
                      transfer_links(transfer_company_list[i], permit_company_list,
                                     company_threshold)]),
          LAMBDA links :
    [ registry_people |-> registry_people,
      transfer_company_list |-> transfer_company_list,
      permit_company_list |-> permit_company_list,
      returned |->
        [ entity_links |-> links,
          registry_companies |-> registry_count(registry_companies),
          transfer_companies |-> Len(transfer_company_list),
          permit_companies |-> Len(permit_company_list),
          total_links_found |-> Len(links) ] ]))))))

(***************************************************************************)
(* The state machine: a caller calls one function of the module with       *)
(* arguments of the model's bounds, and takes what it returns.             *)
(***************************************************************************)
VARIABLES
    pc,       \* "idle", or "done" when a call has returned
    call,     \* the function called and its arguments
    result,   \* what the call returned
    picked,   \* a matcher: the position in candidates of each returned match
    scanned,  \* a matcher: the number of candidates its loop looked at
    pools,    \* cross_reference: its locals, the pools and registry_people
    heap,     \* the dicts there are when the call returns: those of the lists
              \* given, in their order, then those the call created
    refs      \* for each list given and for the list returned, the places
              \* in heap of its elements when the call returns

vars == <<pc, call, result, picked, scanned, pools, heap, refs>>

\* The longest candidate list given to a matcher
MaxCands == 2
\* The most records given to cross_reference, over its three lists
MaxRecords == 3

\* The lists of at most n elements of S
Lists(S, n) == UNION {[1..k -> S] : k \in 0..n}

CompanyQueries ==
    { Chars("102118427 Saskatchewan Ltd."), Chars("Wright Construction Western Inc"),
      Chars("123456 A Ltd."), Chars("Diet Corp."), Chars("  "), None }

CompanyCandidates ==
    { "name" :> Chars("102118427 Saskatchewan Inc"),
      "name" :> Chars("Boulevard Real Estate Equities Ltd"),
      "name" :> Chars("123456 B Inc"),
      "name" :> Chars("1234567 A"),
      "name" :> Chars("Tide Holdings"),
      "name" :> Chars("Inc."),
      "name" :> None,
      "source" :> Chars("permit") }

PersonQueries == { Chars("BATTING TRAVIS"), Chars("Smith, John"), Chars(" . "), None }

PersonCandidates ==
    { "name" :> Chars("Travis Batting"),
      "name" :> Chars("John Smith"),
      "name" :> Chars("Smith, John"),
      "name" :> Chars("Jon Smith"),
      "name" :> None,
      "role" :> Chars("Director") }

AddressQueries ==
    { Chars("306 ONTARIO AVENUE, MAINFLOOR, SASKATOON, Saskatchewan, Canada, S7K2H5"),
      Chars("12 Elm Street"), Chars("SK"), None }

AddressCandidates ==
    { "address" :> Chars("306 Ontario Avenue, Main Floor, Saskatoon, Saskatchewan"),
      "address" :> Chars("12 Elm St"),
      "address" :> Chars("12 Oak St"),
      "address" :> Chars("14 Elm St"),
      "address" :> None,
      "source" :> Chars("permit") }

\* Thresholds, in thousandths: the defaults 0.80, 0.85 and 0.75 among them
CompanyThresholds == {-100, 500, 800, 1000, 1100}
PersonThresholds == {-100, 850, 1000}
AddressThresholds == {-100, 750, 1000}
CrossThresholds == {-100, 800, 1100}

RegistryRecords ==
    { ( "entity_name" :> Chars("123456 A Ltd.") @@ "entity_number" :> Chars("101")
        @@ "directors" :> << ("name" :> Chars("John Smith")
                              @@ "role" :> Chars("Director")) >>
        @@ "officers" :> <<>> @@ "shareholders" :> <<>> ),
      ( "entity_name" :> Chars("Diet Corp.") @@ "entity_number" :> Chars("102")
        @@ "directors" :> <<>> @@ "officers" :> <<>> @@ "shareholders" :> <<>> ),
      ( "entity_name" :> None @@ "entity_number" :> None
        @@ "directors" :> <<>> @@ "officers" :> <<>> @@ "shareholders" :> <<>> ) }

TransferRecords ==
    { ("vendor" :> Chars("123456 B Inc") @@ "purchaser" :> Chars("Tide Holdings")),
      ("vendor" :> Chars("Tide Holdings") @@ "purchaser" :> None),
      ("vendor" :> None @@ "purchaser" :> <<>>) }

PermitRecords ==
    { "owner" :> Chars("123456 A Ltd."),
      "owner" :> Chars("Tide Holdings"),
      "owner" :> None }

SimilarityStrings == Range(company_norms) \cup Range(person_norms)

\* The longest of the short names given to normalize_company_name, the
\* characters they are made of, and the number of passes a caller makes
MaxNameLen == 3
NameAlphabet == {"C", "o", "L", "p", " ", "."}
MaxPasses == 3

ShortNames == UNION {[1..n -> NameAlphabet] : n \in 0..MaxNameLen}

NormalizeNames ==
    CompanyNames \cup ShortNames
    \cup { None, Chars("Co-op Co. & Co."), Chars("A.B. Holdings (Group) Ltd."),
           Chars("  McCORP  INC.,  LLC "), Chars("Inc-Co"), Chars("Trust Company") }

NoPools ==
    [registry_people |-> <<>>, transfer_company_list |-> <<>>,
     permit_company_list |-> <<>>]

NoRefs == [result |-> <<>>]

\* The matches in the order the loop of a matcher appended them: by position
by_position(matches) ==
    [k \in DOMAIN matches |->
        CHOOSE m \in Range(matches) :
            Cardinality({x \in Range(matches) : x.pos <= m.pos}) = k]

\* matches.append({**candidate, "_match_score": ...}) had the score been set
\* in the candidate itself and the candidate appended
append_scored_in_place(objects, m) ==
    [ heap |-> [objects EXCEPT ![m.pos] = ("_match_score" :> m.score) @@ @],
      ref |-> m.pos ]

\* matches.append({**candidate, "_match_score": round(score, 3)}): the dict
\* display makes a new dict of the items of the candidate and the score
append_scored(objects, m) ==
    [ heap |-> Append(objects, ("_match_score" :> m.score) @@ objects[m.pos]),
      ref |-> Len(objects) + 1 ]

\* The loop of a matcher on the dicts: each match appended in turn
RECURSIVE append_all(_, _)
append_all(objects, appended) ==
    IF appended = <<>> THEN [heap |-> objects, refs |-> <<>>]
    ELSE Eager(append_scored(objects, Head(appended)), LAMBDA one :
         Eager(append_all(one.heap, Tail(appended)), LAMBDA rest :
            [heap |-> rest.heap, refs |-> <<one.ref>> \o rest.refs]))

\* A matcher on the dicts: the list given is read only, matches is a new list
\* and the only list sorted
matcher_objects(candidates, matches) ==
    Eager(by_position(matches), LAMBDA appended :
    Eager(append_all(candidates, appended), LAMBDA done :
        [ heap |-> done.heap,
          refs |-> [ candidates |-> [i \in DOMAIN candidates |-> i],
                     result |-> [k \in DOMAIN matches |->
                                    done.refs[CHOOSE j \in DOMAIN appended :
                                                  appended[j] = matches[k]]] ] ]))

\* cross_reference on the dicts of its three lists: they are read with get
\* and with subscripts only, and what it appends to are lists of its own
cross_objects(registry_data, transfers, permits) ==
    [ heap |-> registry_data \o transfers \o permits,
      refs |-> [ registry_data |-> [i \in DOMAIN registry_data |-> i],
                 transfers |-> [i \in DOMAIN transfers |-> Len(registry_data) + i],
                 permits |-> [i \in DOMAIN permits |->
                                 Len(registry_data) + Len(transfers) + i],
                 result |-> <<>> ] ]

Init ==
    /\ pc = "idle"
    /\ call = [fn |-> "none"]
    /\ result = <<>>
    /\ picked = <<>>
    /\ scanned = 0
    /\ pools = NoPools
    /\ heap = <<>>
    /\ refs = NoRefs

\* A call of a matcher returns: the matches with their scores
Returns(fn, query, candidates, threshold, matches, looked_at) ==
    /\ pc' = "done"
    /\ call' = [fn |-> fn, query |-> query, candidates |-> candidates,
                threshold |-> threshold]
    /\ result' = with_scores(candidates, matches)
    /\ picked' = [k \in DOMAIN matches |-> matches[k].pos]
    /\ scanned' = looked_at
    /\ pools' = NoPools
    /\ \E objects \in {matcher_objects(candidates, matches)} :
          heap' = objects.heap /\ refs' = objects.refs

MatchCompany ==
    /\ pc = "idle"
    /\ \E name \in CompanyQueries, candidates \in Lists(CompanyCandidates, MaxCands),
          threshold \in CompanyThresholds :
       \E matches \in {match_company(name, candidates, threshold)} :
            Returns("match_company", name, candidates, threshold, matches,
                    match_company_scanned(name, candidates))

MatchPerson ==
    /\ pc = "idle"
    /\ \E name \in PersonQueries, candidates \in Lists(PersonCandidates, MaxCands),
          threshold \in PersonThresholds :
       \E matches \in {match_person(name, candidates, threshold)} :
            Returns("match_person", name, candidates, threshold, matches,
                    match_person_scanned(name, candidates))

MatchAddress ==
    /\ pc = "idle"
    /\ \E address \in AddressQueries, candidates \in Lists(AddressCandidates, MaxCands),
          threshold \in AddressThresholds :
       \E matches \in {match_address(address, candidates, threshold)} :
            Returns("match_address", address, candidates, threshold, matches,
                    match_address_scanned(address, candidates))

CrossReference ==
    /\ pc = "idle"
    /\ \E registry_data \in Lists(RegistryRecords, MaxRecords) :
       \E transfers \in Lists(TransferRecords, MaxRecords - Len(registry_data)) :
       \E permits \in Lists(PermitRecords,
                            MaxRecords - Len(registry_data) - Len(transfers)) :
       \E company_threshold \in CrossThresholds :
       \E transfer_order \in Orderings(transfer_names(transfers)) :
       \E permit_order \in Orderings(permit_names(permits)) :
       \E out \in {cross_reference(registry_data, transfers, permits,
                                    company_threshold, transfer_order, permit_order)} :
              /\ pc' = "done"
              /\ call' = [fn |-> "cross_reference", registry_data |-> registry_data,
                          transfers |-> transfers, permits |-> permits,
                          company_threshold |-> company_threshold]
              /\ result' = out.returned
              /\ pools' = [registry_people |-> out.registry_people,
                           transfer_company_list |-> out.transfer_company_list,
                           permit_company_list |-> out.permit_company_list]
              /\ picked' = <<>>
              /\ scanned' = 0
              /\ heap' = cross_objects(registry_data, transfers, permits).heap
              /\ refs' = cross_objects(registry_data, transfers, permits).refs

Similarity ==
    /\ pc = "idle"
    /\ \E a \in SimilarityStrings, b \in SimilarityStrings :
          /\ pc' = "done"
          /\ call' = [fn |-> "similarity", a |-> a, b |-> b]
          /\ result' = similarity(a, b)
          /\ UNCHANGED <<picked, scanned, pools, heap, refs>>

\* normalize_company_name(name), called on its own
NormalizeCompany ==
    /\ pc = "idle"
    /\ \E name \in NormalizeNames :
          /\ pc' = "done"
          /\ call' = [fn |-> "normalize_company_name", name |-> name,
                      first |-> name, passes |-> 1]
          /\ result' = normalize_company_name(name)
          /\ UNCHANGED <<picked, scanned, pools, heap, refs>>

\* The caller gives what normalize_company_name returned to it once more
NormalizeAgain ==
    /\ pc = "done"
    /\ call.fn = "normalize_company_name"
    /\ call.passes < MaxPasses
    /\ call' = [call EXCEPT !.name = result, !.passes = @ + 1]
    /\ result' = normalize_company_name(result)
    /\ UNCHANGED <<pc, picked, scanned, pools, heap, refs>>

\* The caller is done with the result
Return ==
    /\ pc = "done"
    /\ pc' = "idle"
    /\ call' = [fn |-> "none"]
    /\ result' = <<>>
    /\ picked' = <<>>
    /\ scanned' = 0
    /\ pools' = NoPools
    /\ heap' = <<>>
    /\ refs' = NoRefs

Next ==
    \/ MatchCompany
    \/ MatchPerson
    \/ MatchAddress
    \/ CrossReference
    \/ Similarity
    \/ NormalizeCompany
    \/ NormalizeAgain
    \/ Return

Spec == Init /\ [][Next]_vars

(***************************************************************************)
(* The properties.                                                         *)
(***************************************************************************)
MATCHERS == {"match_company", "match_person", "match_address"}

\* A matcher has returned
MatcherReturned == pc = "done" /\ call.fn \in MATCHERS

\* The field a matcher reads of a candidate, its normalizer and its score
FieldOf(fn) == IF fn = "match_address" THEN "address" ELSE "name"

NormOf(fn, x) ==
    CASE fn = "match_company" -> company_norm(x)
      [] fn = "match_person" -> person_norm(x)
      [] fn = "match_address" -> address_norm(x)

ScoreOf(fn, a, b) ==
    CASE fn = "match_company" -> company_score_of(a, b)
      [] fn = "match_person" -> person_score_of(a, b)
      [] fn = "match_address" -> address_score_of(a, b)

\* The normalized query of the call, and the normalized field of candidate i
NormQuery == NormOf(call.fn, call.query)
NormCandidate(i) == NormOf(call.fn, Get(call.candidates[i], FieldOf(call.fn), <<>>))

Scores == [k \in DOMAIN result |-> result[k]["_match_score"]]

\* C1: the list a matcher returns is sorted by score in descending order, and
\* two returned candidates of equal score keep the order they have in the
\* candidate list.
C1_SortedDescendingStable ==
    MatcherReturned =>
        \A i, j \in DOMAIN result :
            i < j => /\ Scores[i] >= Scores[j]
                     /\ Scores[i] = Scores[j] => picked[i] < picked[j]

\* At a default threshold two different candidates are returned with the same
\* score, in the order of the candidate list.
C1_Witness ==
    /\ MatcherReturned
    /\ call.threshold > 0
    /\ Len(result) = 2
    /\ Scores[1] = Scores[2]
    /\ picked = <<1, 2>>
    /\ call.candidates[1] # call.candidates[2]

\* The candidates a matcher is to return: the normalized field is not empty
\* and the final score is at least the threshold
Reaching ==
    LET norm_query == NormQuery
    IN  {i \in DOMAIN call.candidates :
            LET norm_candidate == NormCandidate(i)
            IN  /\ norm_candidate # <<>>
                /\ reaches(ScoreOf(call.fn, norm_query, norm_candidate),
                           call.threshold)}

WrightAgainstBoulevard ==
    /\ call.fn = "match_company"
    /\ call.threshold = 800
    /\ Len(call.candidates) = 1
    /\ call.query = Chars("Wright Construction Western Inc")
    /\ call.candidates = << "name" :> Chars("Boulevard Real Estate Equities Ltd") >>

\* C2: with a non-empty normalized query, a matcher returns exactly the
\* candidates whose normalized field is not empty and whose final score is at
\* least the threshold, each once; 'Wright Construction Western Inc' against
\* 'Boulevard Real Estate Equities Ltd' at 0.80 gives the empty list.
C2_ExactlyTheReaching ==
    (MatcherReturned /\ NormQuery # <<>>) =>
        /\ Range(picked) = Reaching
        /\ Len(picked) = Cardinality(Range(picked))
        /\ \A k \in DOMAIN result :
              result[k] = ("_match_score" :> Scores[k]) @@ call.candidates[picked[k]]
        /\ WrightAgainstBoulevard => result = <<>>

\* Of two candidates with a non-empty normalized field, one is returned and
\* the other is below the default threshold of match_company.
C2_Witness ==
    /\ MatcherReturned
    /\ call.fn = "match_company"
    /\ call.threshold = 800
    /\ Len(call.candidates) = 2
    /\ NormCandidate(1) # <<>> /\ NormCandidate(2) # <<>>
    /\ picked = <<2>>

\* What the same matcher returns for query b against the pool {a}
Swapped(fn, a, b, threshold) ==
    CASE fn = "match_company" -> match_company(b, << "name" :> a >>, threshold)
      [] fn = "match_person" -> match_person(b, << "name" :> a >>, threshold)
      [] fn = "match_address" -> match_address(b, << "address" :> a >>, threshold)

\* C3: similarity(a, b) = similarity(b, a), and so matching A against the pool
\* {B} and B against the pool {A} with the same matcher gives the same score.
C3_Symmetric ==
    /\ (pc = "done" /\ call.fn = "similarity") =>
          result = similarity(call.b, call.a)
    /\ (MatcherReturned /\ Len(call.candidates) = 1
          /\ FieldOf(call.fn) \in DOMAIN call.candidates[1]) =>
          LET back == Swapped(call.fn, call.query,
                              call.candidates[1][FieldOf(call.fn)], call.threshold)
          IN  Scores = [k \in DOMAIN back |-> back[k].score]

\* The scores of the links cross_reference returns
LinkScores ==
    {result.entity_links[k]["score"] : k \in DOMAIN result.entity_links}

\* C4: every score a matcher reports and every score of a link of
\* cross_reference is in [0, 1].
C4_ScoresInUnitInterval ==
    /\ MatcherReturned => \A k \in DOMAIN result : 0 <= Scores[k] /\ Scores[k] <= 1000
    /\ (pc = "done" /\ call.fn = "cross_reference") =>
          \A x \in LinkScores : 0 <= x /\ x <= 1000

\* cross_reference returns a link of score 1.0 and a link of a score strictly
\* between 0 and 1.
C4_Witness ==
    /\ pc = "done"
    /\ call.fn = "cross_reference"
    /\ 1000 \in LinkScores
    /\ \E x \in LinkScores : 0 < x /\ x < 1000

\* The run of digits a string begins with
LeadingDigits(s) == SubSeq(s, 1, digits_from(s, 1))

\* The two normalized names begin with the same run of 6 or more digits
SameNumber(a, b) ==
    /\ Len(LeadingDigits(a)) >= 6
    /\ LeadingDigits(a) = LeadingDigits(b)

\* The score of two normalized company names before the numbered-company rule:
\* the larger of the similarity and the token overlap
Unforced(a, b) ==
    LET ta == token_set(a)
        tb == token_set(b)
        larger == IF Cardinality(ta) >= Cardinality(tb)
                  THEN Cardinality(ta) ELSE Cardinality(tb)
    IN  IF ta # {} /\ tb # {}
        THEN RatMax(similarity(a, b), Rat(Cardinality(ta \cap tb), larger))
        ELSE similarity(a, b)

\* C5: in match_company, a candidate whose normalized name begins with the
\* same run of 6 or more digits as the normalized query is returned with score
\* exactly 1.0 for every threshold <= 1.0, however the rest of the names
\* differ; when the leading runs differ the score is the unforced one.
C5_NumberedCompanyIdentity ==
    (MatcherReturned /\ call.fn = "match_company" /\ NormQuery # <<>>) =>
        \A i \in DOMAIN call.candidates :
            /\ (SameNumber(NormQuery, NormCandidate(i)) /\ call.threshold <= 1000) =>
                  \E k \in DOMAIN picked : picked[k] = i /\ Scores[k] = 1000
            /\ ~SameNumber(NormQuery, NormCandidate(i)) =>
                  \A k \in DOMAIN picked :
                      picked[k] = i =>
                          Scores[k] = round3(Unforced(NormQuery, NormCandidate(i)))

\* At threshold 1.0 a candidate of the same number is returned with 1.0 although
\* the rest of its name keeps the unforced score under 1.0.
C5_Witness ==
    /\ MatcherReturned
    /\ call.fn = "match_company"
    /\ call.threshold = 1000
    /\ Len(call.candidates) = 1
    /\ SameNumber(NormQuery, NormCandidate(1))
    /\ round3(Unforced(NormQuery, NormCandidate(1))) < 1000
    /\ picked = <<1>>
    /\ Scores = <<1000>>

\* The tokens of a person name: lower case, punctuation taken as blanks
PersonTokens(name) ==
    IF Falsy(name) THEN <<>> ELSE split(sub_punctuation(lower(name)))

\* How many times each token occurs
TokenCount(tokens) ==
    [t \in Range(tokens) |-> Cardinality({k \in DOMAIN tokens : tokens[k] = t})]

\* One name is a permutation of the tokens of the other
Permutation(a, b) == TokenCount(PersonTokens(a)) = TokenCount(PersonTokens(b))

\* C6: match_person returns with score exactly 1.0 every candidate whose name
\* is a permutation of the tokens of the query, letter case and the stripped
\* punctuation ignored (the query has a token, the threshold is at most 1.0).
C6_PersonOrderIndependent ==
    (MatcherReturned /\ call.fn = "match_person"
        /\ PersonTokens(call.query) # <<>> /\ call.threshold <= 1000) =>
        \A i \in DOMAIN call.candidates :
            Permutation(call.query, Get(call.candidates[i], "name", <<>>)) =>
                \E k \in DOMAIN picked : picked[k] = i /\ Scores[k] = 1000

\* A candidate whose tokens are those of the query in another order is returned
\* with 1.0.
C6_Witness ==
    /\ MatcherReturned
    /\ call.fn = "match_person"
    /\ Len(call.candidates) = 1
    /\ Permutation(call.query, Get(call.candidates[1], "name", <<>>))
    /\ PersonTokens(call.query) # PersonTokens(call.candidates[1]["name"])
    /\ picked = <<1>>
    /\ Scores = <<1000>>

\* A query that is null, empty, blank or of an empty normalized form
EmptyQuery ==
    \/ call.query = None
    \/ strip(call.query) = <<>>
    \/ NormQuery = <<>>

\* Candidate i has no matched field, or a null, empty or blank one, or one of
\* an empty normalized form
EmptyField(i) ==
    \/ FieldOf(call.fn) \notin DOMAIN call.candidates[i]
    \/ call.candidates[i][FieldOf(call.fn)] = None
    \/ strip(call.candidates[i][FieldOf(call.fn)]) = <<>>
    \/ NormCandidate(i) = <<>>

\* C7: a matcher given an empty query returns the empty list and scans no
\* candidate; a candidate with an empty matched field is in no result,
\* whatever the threshold.
C7_EmptyNeverMatches ==
    MatcherReturned =>
        /\ EmptyQuery => result = <<>> /\ scanned = 0
        /\ \A k \in DOMAIN picked : ~EmptyField(picked[k])

\* With a threshold below every score, the candidate with an empty field is
\* left out and the other candidate is returned.
C7_Witness ==
    /\ MatcherReturned
    /\ call.threshold < 0
    /\ Len(call.candidates) = 2
    /\ EmptyField(1)
    /\ picked = <<2>>

CrossReturned == pc = "done" /\ call.fn = "cross_reference"

NoRecords ==
    call.registry_data = <<>> /\ call.transfers = <<>> /\ call.permits = <<>>

\* C8: cross_reference of three empty lists returns no link and the counts
\* registry_companies, transfer_companies, permit_companies and
\* total_links_found all 0.
C8_EmptyCrossReference ==
    (CrossReturned /\ NoRecords) =>
        result = [ entity_links |-> <<>>,
                   registry_companies |-> 0,
                   transfer_companies |-> 0,
                   permit_companies |-> 0,
                   total_links_found |-> 0 ]

\* cross_reference has returned from a call with three empty lists.
C8_Witness ==
    /\ CrossReturned
    /\ NoRecords
    /\ result.total_links_found = 0

\* The non-empty values the records of a list have under the keys
NamesUnder(records, keys) ==
    UNION {{records[i][key] : key \in keys \cap DOMAIN records[i]} :
              i \in DOMAIN records}
    \ {None, <<>>}

\* The pool has one entry for each of the names, of the source, and no other
OneEntryEach(pool, names, source) ==
    /\ \A n \in names : Cardinality({k \in DOMAIN pool : pool[k]["name"] = n}) = 1
    /\ \A k \in DOMAIN pool :
          pool[k] = ("name" :> pool[k]["name"] @@ "source" :> Chars(source))
          /\ pool[k]["name"] \in names

\* C9: the transfer pool cross_reference matches against has exactly one entry
\* for each distinct non-empty vendor or purchaser, the permit pool exactly one
\* for each distinct non-empty owner, and transfer_companies and
\* permit_companies are the sizes of these pools.
C9_PoolsDeduplicated ==
    CrossReturned =>
        /\ OneEntryEach(pools.transfer_company_list,
                        NamesUnder(call.transfers, {"vendor", "purchaser"}), "transfer")
        /\ OneEntryEach(pools.permit_company_list,
                        NamesUnder(call.permits, {"owner"}), "permit")
        /\ result.transfer_companies = Len(pools.transfer_company_list)
        /\ result.permit_companies = Len(pools.permit_company_list)

\* A name that two transfer rows carry, next to an empty purchaser, is in the
\* pool once.
C9_Witness ==
    /\ CrossReturned
    /\ \E i, j \in DOMAIN call.transfers :
          /\ i < j
          /\ call.transfers[i]["vendor"] # None
          /\ call.transfers[i]["vendor"] \in
                {call.transfers[j]["vendor"], call.transfers[j]["purchaser"]}
          /\ Falsy(call.transfers[j]["purchaser"])
    /\ result.transfer_companies = 1

\* The distinct companies of the registry records
RegistryEntities ==
    NamesUnder(call.registry_data, {"entity_name"})

\* C10: registry_companies is the number of distinct registry companies among
\* the registry records: records that repeat an entity or carry no entity name
\* do not add to it.
C10_DistinctRegistryCount ==
    CrossReturned => result.registry_companies = Cardinality(RegistryEntities)

NormalizeReturned == pc = "done" /\ call.fn = "normalize_company_name"

\* C11: once normalize_company_name has been applied twice, applying it once
\* more returns its argument: the third pass and every later one is a no-op.
C11_FixedPointAfterTwoPasses ==
    (NormalizeReturned /\ call.passes >= 3) => result = call.name

\* A third pass has been made over a name the first pass changed and did not
\* empty.
C11_Witness ==
    /\ NormalizeReturned
    /\ call.passes = 3
    /\ result # <<>>
    /\ result # call.first
    /\ result = call.name

\* A threshold brought into [0, 1]
Clamped(threshold) ==
    IF threshold < 0 THEN 0 ELSE IF threshold > 1000 THEN 1000 ELSE threshold

\* What a matcher gives for the arguments
MatchesOf(fn, query, candidates, threshold) ==
    CASE fn = "match_company" -> match_company(query, candidates, threshold)
      [] fn = "match_person" -> match_person(query, candidates, threshold)
      [] fn = "match_address" -> match_address(query, candidates, threshold)

\* The names of a pool of cross_reference, in the order of the pool
PoolOrder(pool) == [k \in DOMAIN pool |-> pool[k]["name"]]

\* C12: a threshold outside [0, 1] is not applied as given: a call that
\* returns with such a threshold returns what it returns for the threshold
\* clamped into [0, 1] (the code has no path that rejects a threshold).
C12_ThresholdClamped ==
    /\ (MatcherReturned /\ call.threshold \notin 0..1000) =>
          result = with_scores(call.candidates,
                       MatchesOf(call.fn, call.query, call.candidates,
                                 Clamped(call.threshold)))
    /\ (CrossReturned /\ call.company_threshold \notin 0..1000) =>
          result = cross_reference(call.registry_data, call.transfers, call.permits,
                                   Clamped(call.company_threshold),
                                   PoolOrder(pools.transfer_company_list),
                                   PoolOrder(pools.permit_company_list)).returned

\* The places 1 .. n in the order of a list of n elements
SamePlaces(list) == [i \in DOMAIN list |-> i]

\* C13: when a matcher or cross_reference returns, each list it was given has
\* the same dicts in the same order and each of these dicts the same keys and
\* values as when it was called; the score is only in the dicts returned,
\* which are new ones.
C13_InputsUnchanged ==
    /\ MatcherReturned =>
          /\ refs.candidates = SamePlaces(call.candidates)
          /\ SubSeq(heap, 1, Len(call.candidates)) = call.candidates
          /\ \A k \in DOMAIN result :
                /\ refs.result[k] > Len(call.candidates)
                /\ heap[refs.result[k]] = result[k]
                /\ \A j \in DOMAIN result : refs.result[j] = refs.result[k] => j = k
    /\ CrossReturned =>
          /\ heap = call.registry_data \o call.transfers \o call.permits
          /\ refs.registry_data = SamePlaces(call.registry_data)
          /\ refs.registry_data \o refs.transfers \o refs.permits = SamePlaces(heap)

\* Both candidates of a list are returned, the second first: the list given
\* keeps its order and its dicts have no score.
C13_Witness ==
    /\ MatcherReturned
    /\ Len(call.candidates) = 2
    /\ picked = <<2, 1>>
    /\ Len(heap) = 4
    /\ \A i \in 1..2 : "_match_score" \notin DOMAIN heap[i]
    /\ \A i \in 3..4 : "_match_score" \in DOMAIN heap[i]

\* The names of the transfer pool followed by those of the permit pool
ExternalNames ==
    PoolOrder(pools.transfer_company_list) \o PoolOrder(pools.permit_company_list)

NamedCandidates(names) == [k \in DOMAIN names |-> "name" :> names[k]]

\* The links of registry record i: one for each result of match_company of
\* its entity name against the transfer pool followed by the permit pool
RegistryPivot(i) ==
    LET reg == call.registry_data[i]
        entity == Get(reg, "entity_name", <<>>)
        found == match_company(entity, NamedCandidates(ExternalNames),
                               call.company_threshold)
    IN  [k \in DOMAIN found |->
            [ registry_entity |-> entity,
              entity_number |-> Get(reg, "entity_number", None),
              matched_name |-> ExternalNames[found[k].pos],
              matched_source |->
                  IF found[k].pos <= Len(pools.transfer_company_list)
                  THEN Chars("transfer") ELSE Chars("permit"),
              score |-> found[k].score ]]

\* The links of the transfer pool name at place i: one for each result of
\* match_company of it against the permit pool
TransferPivot(i) ==
    LET name == pools.transfer_company_list[i]["name"]
        owners == PoolOrder(pools.permit_company_list)
        found == match_company(name, NamedCandidates(owners), call.company_threshold)
    IN  [k \in DOMAIN found |->
            [ transfer_entity |-> name,
              matched_name |-> owners[found[k].pos],
              matched_source |-> Chars("permit"),
              score |-> found[k].score ]]

\* C14: entity_links is the links of the registry records, in the order of
\* the records, each matched against the transfer pool followed by the permit
\* pool, and then the links of the transfer pool names, each matched against
\* the permit pool only; no link of the second group is left out for being in
\* the first, and total_links_found is the length of entity_links.
C14_EntityLinks ==
    CrossReturned =>
        /\ result.entity_links =
              flatten([i \in DOMAIN call.registry_data |-> RegistryPivot(i)])
              \o flatten([i \in DOMAIN pools.transfer_company_list |->
                             TransferPivot(i)])
        /\ result.total_links_found = Len(result.entity_links)

\* A registry company is linked to a transfer name and to a permit name, and
\* that transfer name is linked to the same permit name once more.
C14_Witness ==
    /\ CrossReturned
    /\ \E i, j, k \in DOMAIN result.entity_links :
          /\ i < j /\ j < k
          /\ "registry_entity" \in DOMAIN result.entity_links[i]
          /\ result.entity_links[i]["matched_source"] = Chars("transfer")
          /\ "registry_entity" \in DOMAIN result.entity_links[j]
          /\ result.entity_links[j]["matched_source"] = Chars("permit")
          /\ "transfer_entity" \in DOMAIN result.entity_links[k]
          /\ result.entity_links[k]["transfer_entity"]
                = result.entity_links[i]["matched_name"]
          /\ result.entity_links[k]["matched_name"]
                = result.entity_links[j]["matched_name"]

\* The elements of a list, each once, in an order fixed for the set of them
OnceEach(list) == CHOOSE o \in Orderings(Range(list)) : TRUE

\* A list as a multiset: how many times each element is in it
Multiset(list) ==
    [x \in Range(list) |-> Cardinality({k \in DOMAIN list : list[k] = x})]

\* What cross_reference returns, its links taken as a multiset
Summary(returned) ==
    [ links |-> Multiset(returned.entity_links),
      registry_companies |-> returned.registry_companies,
      transfer_companies |-> returned.transfer_companies,
      permit_companies |-> returned.permit_companies,
      total_links_found |-> returned.total_links_found ]

\* What cross_reference returns for the same registry records and threshold
\* when each transfer row and each permit row is given once, the rows and the
\* pools in an order fixed for the set of them
RowsOnceEach ==
    LET transfers == OnceEach(call.transfers)
        permits == OnceEach(call.permits)
    IN  cross_reference(call.registry_data, transfers, permits,
                        call.company_threshold,
                        CHOOSE o \in Orderings(transfer_names(transfers)) : TRUE,
                        CHOOSE o \in Orderings(permit_names(permits)) : TRUE).returned

\* C15: the multiset of links and the four counts cross_reference returns are
\* those of the call that is given each transfer row and each permit row once
\* in a fixed order: calls whose transfer rows and permit rows differ in
\* order or in how often a row is repeated, whatever the order their pools are
\* gone through in, so return the same multiset of links and the same counts.
C15_RowOrderAndRepeats ==
    CrossReturned => Summary(result) = Summary(RowsOnceEach)

\* A transfer row is given twice and the transfer pool is gone through in
\* another order than for the row given once; a link is found.
C15_Witness ==
    /\ CrossReturned
    /\ Len(call.transfers) > Cardinality(Range(call.transfers))
    /\ PoolOrder(pools.transfer_company_list)
          # (CHOOSE o \in Orderings(transfer_names(OnceEach(call.transfers))) : TRUE)
    /\ result.total_links_found > 0

====
